---- MODULE Spec2Model ----
(***************************************************************************)
(* Bookmark extension (src/extension.js, current revision, lines 1-724):   *)
(* the three persisted slots of workspaceState (bookmarks, bookmarkGroups, *)
(* activeBookmarkGroup), the in-memory activeGroup, the configuration, the *)
(* selection of the active editor, and one action per command / event      *)
(* handler.  In Spec each handler runs to completion as one step; the     *)
(* answers of its prompts are inputs.  In SpecAwait toggle, rename and     *)
(* delete take one step per stretch of code between two awaits.  SpecSync  *)
(* runs the sync handler alone on events of several changes; SpecPrompt    *)
(* runs clear around its confirmation prompt, with set-active and toggle.  *)
(***************************************************************************)
EXTENDS Integers, Sequences, FiniteSets, TLC

\* ---------------------------------------------------------------- bounds
MaxLine == 2
MaxSteps == 2
MaxChanges == 1
MaxNewlines == 1

\* ------------------------------------------------------------- universes
Files == {"fileA", "fileB"}
Lines == 0..MaxLine
Contents == {"x", "y"}
GroupNames == {"Default", "Tests", "TODO"}
Undefined == ""
RandomColors == {"#hslA", "#hslB"}
Answers == {"Yes", Undefined}

SettingsDefault ==
  [groupColors |-> <<>>,
   defaultColors |-> <<"#fff59d", "#aed581", "#ba68c8", "#4fc3f7">>]
SettingsUser ==
  [groupColors |-> <<[name |-> "Default", color |-> "#ff00ff"],
                     [name |-> "Tests", color |-> "#00ff00"]>>,
   defaultColors |-> <<"#aed581">>]
Configs == {SettingsDefault, SettingsUser}

\* cursor: document and line of the active editor's selection.
\* pending: the handlers suspended at an await, with their local variables.
\* begun: the stores when the first of them started, the handlers started
\* since, and whether one started while another was suspended.
VARIABLES bookmarks, bookmarkGroups, activeBookmarkGroup, activeGroup,
          config, cursor, last, steps, pending, begun

vars == <<bookmarks, bookmarkGroups, activeBookmarkGroup, activeGroup,
          config, cursor, last, steps, pending, begun>>

\* ------------------------------------------- objects with ordered keys
Keys(m) == [i \in 1..Len(m) |-> m[i].name]
HasKey(m, n) == \E i \in 1..Len(m) : m[i].name = n
Lookup(m, n) ==
  IF HasKey(m, n) THEN m[CHOOSE i \in 1..Len(m) : m[i].name = n].color
  ELSE Undefined
Assign(m, n, c) ==
  IF HasKey(m, n)
  THEN [i \in 1..Len(m) |-> IF m[i].name = n THEN [name |-> n, color |-> c] ELSE m[i]]
  ELSE Append(m, [name |-> n, color |-> c])
DeleteKey(m, n) == SelectSeq(m, LAMBDA e : e.name # n)
Truthy(v) == v # Undefined
Serialize(m) == SelectSeq(m, LAMBDA e : e.color # Undefined)

RECURSIVE ObjectAssign(_, _)
ObjectAssign(target, source) ==
  IF source = <<>> THEN target
  ELSE ObjectAssign(Assign(target, Head(source).name, Head(source).color), Tail(source))

\* ------------------------------------------------------ bookmark records
Bookmark(uri, line, content, group) ==
  [uri |-> uri, line |-> line, content |-> content, group |-> group]
SameKey(b, uri, line, group) == b.uri = uri /\ b.line = line /\ b.group = group
FindIndex(bms, uri, line, group) ==
  IF \E i \in 1..Len(bms) : SameKey(bms[i], uri, line, group)
  THEN CHOOSE i \in 1..Len(bms) :
         /\ SameKey(bms[i], uri, line, group)
         /\ \A j \in 1..(i - 1) : ~SameKey(bms[j], uri, line, group)
  ELSE 0
Splice(bms, idx) == SubSeq(bms, 1, idx - 1) \o SubSeq(bms, idx + 1, Len(bms))
Max(a, b) == IF a > b THEN a ELSE b

\* ------------------------------------------------------ editor selection
Position(uri, line) == [uri |-> uri, line |-> line]
Positions == {Position(u, l) : u \in Files, l \in Lines}

\* ------------------------------------------------------------- snapshots
Store(bms, groups, stored, active) ==
  [bookmarks |-> bms, groups |-> groups, stored |-> stored, activeGroup |-> active]
Current == Store(bookmarks, bookmarkGroups, activeBookmarkGroup, activeGroup)
Outcome(st, res) == [st |-> st, res |-> res]


\* ------------------------------------------------------------ decorations
\* ensureDecorationForGroup: a group without a colour gets a random one,
\* written back to bookmarkGroups.
EnsureDecorationForGroup(groups, grp, rnd) ==
  IF ~Truthy(Lookup(groups, grp)) THEN Assign(groups, grp, rnd) ELSE groups

\* -------------------------------------------------------- initialization
\* Variant: the persisted colours are assigned over the configured ones.
InitializeGroupsAndColors_PersistedWins(st, cfg) ==
  LET merged == ObjectAssign(ObjectAssign(st.groups, cfg.groupColors), st.groups)
      groupColors == IF Len(Keys(merged)) = 0
                     THEN <<[name |-> "Default", color |-> cfg.defaultColors[1]]>>
                     ELSE merged
      reset == ~Truthy(st.stored) \/ ~Truthy(Lookup(groupColors, st.stored))
      active == IF reset THEN Keys(groupColors)[1] ELSE st.stored
  IN Store(st.bookmarks, Serialize(groupColors), active, active)

InitializeGroupsAndColors(st, cfg) ==
  LET merged == ObjectAssign(st.groups, cfg.groupColors)
      groupColors == IF Len(Keys(merged)) = 0
                     THEN <<[name |-> "Default", color |-> cfg.defaultColors[1]]>>
                     ELSE merged
      reset == ~Truthy(st.stored) \/ ~Truthy(Lookup(groupColors, st.stored))
      active == IF reset THEN Keys(groupColors)[1] ELSE st.stored
  IN Store(st.bookmarks, Serialize(groupColors), active, active)

\* Variant: every configured override is assigned, whether or not the group
\* exists.
ApplyConfigChanges_AddOverrides(st, cfg) ==
  LET overridden == ObjectAssign(st.groups, cfg.groupColors)
      groups == IF Truthy(Lookup(overridden, "Default")) /\ Len(cfg.defaultColors) > 0
                THEN Assign(overridden, "Default", cfg.defaultColors[1])
                ELSE overridden
  IN Outcome([st EXCEPT !.groups = Serialize(groups)], "Applied")

ApplyConfigChanges(st, cfg) ==
  LET RECURSIVE Override(_, _)
      Override(groups, entries) ==
        IF entries = <<>> THEN groups
        ELSE Override(IF Truthy(Lookup(groups, Head(entries).name))
                      THEN Assign(groups, Head(entries).name, Head(entries).color)
                      ELSE groups,
                      Tail(entries))
      overridden == Override(st.groups, cfg.groupColors)
      groups == IF Truthy(Lookup(overridden, "Default")) /\ Len(cfg.defaultColors) > 0
                THEN Assign(overridden, "Default", cfg.defaultColors[1])
                ELSE overridden
  IN Outcome([st EXCEPT !.groups = Serialize(groups)], "Applied")

\* --------------------------------------------------------------- commands
\* Variant: the removal splices position 0 instead of the index found.
ToggleBookmark_SpliceFirst(st, cfg, uri, line, content) ==
  LET groups == st.groups
      invalid == ~Truthy(Lookup(groups, st.activeGroup))
      names == Keys(groups)
      groups1 == IF invalid /\ Len(names) = 0
                 THEN Serialize(Assign(groups, "Default", cfg.defaultColors[1]))
                 ELSE groups
      active1 == IF invalid
                 THEN (IF Len(names) > 0 THEN names[1] ELSE "Default")
                 ELSE st.activeGroup
      stored1 == IF invalid THEN active1 ELSE st.stored
      bms == st.bookmarks
      idx == FindIndex(bms, uri, line, active1)
  IN IF idx >= 1
     THEN Outcome(Store(Splice(bms, 1), groups1, stored1, active1), "Removed")
     ELSE Outcome(Store(Append(bms, Bookmark(uri, line, content, active1)),
                        groups1, stored1, active1), "Added")

\* Variant: the lookup compares uri and line only, not the group.
ToggleBookmark_AnyGroup(st, cfg, uri, line, content) ==
  LET groups == st.groups
      invalid == ~Truthy(Lookup(groups, st.activeGroup))
      names == Keys(groups)
      groups1 == IF invalid /\ Len(names) = 0
                 THEN Serialize(Assign(groups, "Default", cfg.defaultColors[1]))
                 ELSE groups
      active1 == IF invalid
                 THEN (IF Len(names) > 0 THEN names[1] ELSE "Default")
                 ELSE st.activeGroup
      stored1 == IF invalid THEN active1 ELSE st.stored
      bms == st.bookmarks
      hits == {i \in 1..Len(bms) : bms[i].uri = uri /\ bms[i].line = line}
      idx == IF hits = {} THEN 0 ELSE CHOOSE i \in hits : \A j \in hits : i <= j
  IN IF idx >= 1
     THEN Outcome(Store(Splice(bms, idx), groups1, stored1, active1), "Removed")
     ELSE Outcome(Store(Append(bms, Bookmark(uri, line, content, active1)),
                        groups1, stored1, active1), "Added")

\* Variant: the active group is used as it is, without the test of
\* groups[activeGroup].
ToggleBookmark_NoRepair(st, cfg, uri, line, content) ==
  LET bms == st.bookmarks
      idx == FindIndex(bms, uri, line, st.activeGroup)
  IN IF idx >= 1
     THEN Outcome([st EXCEPT !.bookmarks = Splice(bms, idx)], "Removed")
     ELSE Outcome([st EXCEPT !.bookmarks =
                     Append(bms, Bookmark(uri, line, content, st.activeGroup))],
                  "Added")

ToggleBookmark(st, cfg, uri, line, content) ==
  LET groups == st.groups
      invalid == ~Truthy(Lookup(groups, st.activeGroup))
      names == Keys(groups)
      groups1 == IF invalid /\ Len(names) = 0
                 THEN Serialize(Assign(groups, "Default", cfg.defaultColors[1]))
                 ELSE groups
      active1 == IF invalid
                 THEN (IF Len(names) > 0 THEN names[1] ELSE "Default")
                 ELSE st.activeGroup
      stored1 == IF invalid THEN active1 ELSE st.stored
      bms == st.bookmarks
      idx == FindIndex(bms, uri, line, active1)
  IN IF idx >= 1
     THEN Outcome(Store(Splice(bms, idx), groups1, stored1, active1), "Removed")
     ELSE Outcome(Store(Append(bms, Bookmark(uri, line, content, active1)),
                        groups1, stored1, active1), "Added")

\* Variant: the filter is dropped, every record is cleared.
\* Variant: the answer to the prompt is not tested.
ClearBookmarks_NoConfirm(st, confirm) ==
  LET active == SelectSeq(st.bookmarks, LAMBDA b : b.group = st.activeGroup)
      filtered == SelectSeq(st.bookmarks, LAMBDA b : b.group # st.activeGroup)
  IN IF Len(active) = 0 THEN Outcome(st, "NoBookmarks")
     ELSE Outcome([st EXCEPT !.bookmarks = filtered], "Cleared")

ClearBookmarks_AllGroups(st, confirm) ==
  LET active == SelectSeq(st.bookmarks, LAMBDA b : b.group = st.activeGroup)
  IN IF Len(active) = 0 THEN Outcome(st, "NoBookmarks")
     ELSE IF confirm # "Yes" THEN Outcome(st, "Cancelled")
     ELSE Outcome([st EXCEPT !.bookmarks = <<>>], "Cleared")

ClearBookmarks(st, confirm) ==
  LET active == SelectSeq(st.bookmarks, LAMBDA b : b.group = st.activeGroup)
      filtered == SelectSeq(st.bookmarks, LAMBDA b : b.group # st.activeGroup)
  IN IF Len(active) = 0 THEN Outcome(st, "NoBookmarks")
     ELSE IF confirm # "Yes" THEN Outcome(st, "Cancelled")
     ELSE Outcome([st EXCEPT !.bookmarks = filtered], "Cleared")

\* Variant: the uri is not compared when the record is looked up.
RemoveBookmark_AnyFile(st, bm) ==
  LET all == st.bookmarks
      hits == {i \in 1..Len(all) : all[i].line = bm.line /\ all[i].group = bm.group}
      idx == IF hits = {} THEN 0 ELSE CHOOSE i \in hits : \A j \in hits : i <= j
  IN IF idx >= 1
     THEN Outcome([st EXCEPT !.bookmarks = Splice(all, idx)], "Removed")
     ELSE Outcome(st, "NotFound")

RemoveBookmark(st, bm) ==
  LET all == st.bookmarks
      idx == FindIndex(all, bm.uri, bm.line, bm.group)
  IN IF idx >= 1
     THEN Outcome([st EXCEPT !.bookmarks = Splice(all, idx)], "Removed")
     ELSE Outcome(st, "NotFound")

OtherGroups(st, bm) == SelectSeq(Keys(st.groups), LAMBDA g : g # bm.group)

\* Variant: the record is taken out of the list and pushed back with the
\* new group, so it ends up last.
\* Variant: the moved record is rebuilt from the tree item's key, without the
\* content snapshot.
MoveBookmarkToGroup_FromItem(st, bm, target) ==
  LET all == st.bookmarks
      idx == FindIndex(all, bm.uri, bm.line, bm.group)
  IN IF Len(OtherGroups(st, bm)) = 0 THEN Outcome(st, "NoOtherGroups")
     ELSE IF ~Truthy(target) THEN Outcome(st, "Cancelled")
     ELSE IF idx >= 1
     THEN Outcome([st EXCEPT !.bookmarks =
                     [all EXCEPT ![idx] = Bookmark(bm.uri, bm.line, Undefined, target)]],
                  "Moved")
     ELSE Outcome(st, "NotFound")

MoveBookmarkToGroup_Reinsert(st, bm, target) ==
  LET all == st.bookmarks
      idx == FindIndex(all, bm.uri, bm.line, bm.group)
  IN IF Len(OtherGroups(st, bm)) = 0 THEN Outcome(st, "NoOtherGroups")
     ELSE IF ~Truthy(target) THEN Outcome(st, "Cancelled")
     ELSE IF idx >= 1
     THEN Outcome([st EXCEPT !.bookmarks =
                     Append(Splice(all, idx), [all[idx] EXCEPT !.group = target])],
                  "Moved")
     ELSE Outcome(st, "NotFound")

MoveBookmarkToGroup(st, bm, target) ==
  LET all == st.bookmarks
      idx == FindIndex(all, bm.uri, bm.line, bm.group)
  IN IF Len(OtherGroups(st, bm)) = 0 THEN Outcome(st, "NoOtherGroups")
     ELSE IF ~Truthy(target) THEN Outcome(st, "Cancelled")
     ELSE IF idx >= 1
     THEN Outcome([st EXCEPT !.bookmarks = [all EXCEPT ![idx].group = target]], "Moved")
     ELSE Outcome(st, "NotFound")

\* GroupsProvider.handleDrop: no idx >= 0 test; all[-1].group = ... throws a
\* TypeError before anything is saved.
GroupsHandleDrop(st, bookmark, targetGroup) ==
  LET all == st.bookmarks
      idx == FindIndex(all, bookmark.uri, bookmark.line, bookmark.group)
  IN IF bookmark.group = targetGroup THEN Outcome(st, "Ignored")
     ELSE IF idx >= 1
     THEN Outcome([st EXCEPT !.bookmarks = [all EXCEPT ![idx].group = targetGroup]], "Moved")
     ELSE Outcome(st, "TypeError")

\* BookmarksProvider.handleDrop
BookmarksHandleDrop(st, groupName) ==
  Outcome([st EXCEPT !.activeGroup = groupName, !.stored = groupName], "Activated")

SetActiveGroup(st, group) ==
  IF ~Truthy(group) THEN Outcome(st, "Ignored")
  ELSE Outcome([st EXCEPT !.activeGroup = group, !.stored = group], "Activated")

\* Variant: an existing name is not rejected.
\* Variant: the new group is saved but the active group stays as it is.
CreateGroup_KeepActive(st, name, rnd) ==
  IF ~Truthy(name) THEN Outcome(st, "Cancelled")
  ELSE IF Truthy(Lookup(st.groups, name)) THEN Outcome(st, "Exists")
  ELSE LET saved == Serialize(Assign(st.groups, name, rnd))
           groups == EnsureDecorationForGroup(saved, name, rnd)
       IN Outcome([st EXCEPT !.groups = groups], "Created")

CreateGroup_NoExistsCheck(st, name, rnd) ==
  IF ~Truthy(name) THEN Outcome(st, "Cancelled")
  ELSE LET saved == Serialize(Assign(st.groups, name, rnd))
           groups == EnsureDecorationForGroup(saved, name, rnd)
       IN Outcome(Store(st.bookmarks, groups, name, name), "Created")

CreateGroup(st, name, rnd) ==
  IF ~Truthy(name) THEN Outcome(st, "Cancelled")
  ELSE IF Truthy(Lookup(st.groups, name)) THEN Outcome(st, "Exists")
  ELSE LET saved == Serialize(Assign(st.groups, name, rnd))
           groups == EnsureDecorationForGroup(saved, name, rnd)
       IN Outcome(Store(st.bookmarks, groups, name, name), "Created")

\* Variant: the new name gets a fresh colour instead of the old one's.
RenameGroup_FreshColor(st, old, newName, rnd) ==
  IF ~Truthy(old) THEN Outcome(st, "Ignored")
  ELSE IF ~Truthy(newName) \/ newName = old THEN Outcome(st, "Cancelled")
  ELSE IF Truthy(Lookup(st.groups, newName)) THEN Outcome(st, "Exists")
  ELSE LET color == rnd
           saved == Serialize(Assign(DeleteKey(st.groups, old), newName, color))
           bms == [i \in 1..Len(st.bookmarks) |->
                     IF st.bookmarks[i].group = old
                     THEN [st.bookmarks[i] EXCEPT !.group = newName]
                     ELSE st.bookmarks[i]]
           groups == EnsureDecorationForGroup(saved, newName, rnd)
           wasActive == st.activeGroup = old
       IN Outcome(Store(bms, groups,
                        IF wasActive THEN newName ELSE st.stored,
                        IF wasActive THEN newName ELSE st.activeGroup), "Renamed")

\* Variant: an existing new name is not rejected.
RenameGroup_NoExistsCheck(st, old, newName, rnd) ==
  IF ~Truthy(old) THEN Outcome(st, "Ignored")
  ELSE IF ~Truthy(newName) \/ newName = old THEN Outcome(st, "Cancelled")
  ELSE LET color == Lookup(st.groups, old)
           saved == Serialize(Assign(DeleteKey(st.groups, old), newName, color))
           bms == [i \in 1..Len(st.bookmarks) |->
                     IF st.bookmarks[i].group = old
                     THEN [st.bookmarks[i] EXCEPT !.group = newName]
                     ELSE st.bookmarks[i]]
           groups == EnsureDecorationForGroup(saved, newName, rnd)
           wasActive == st.activeGroup = old
       IN Outcome(Store(bms, groups,
                        IF wasActive THEN newName ELSE st.stored,
                        IF wasActive THEN newName ELSE st.activeGroup), "Renamed")

RenameGroup(st, old, newName, rnd) ==
  IF ~Truthy(old) THEN Outcome(st, "Ignored")
  ELSE IF ~Truthy(newName) \/ newName = old THEN Outcome(st, "Cancelled")
  ELSE IF Truthy(Lookup(st.groups, newName)) THEN Outcome(st, "Exists")
  ELSE LET color == Lookup(st.groups, old)
           saved == Serialize(Assign(DeleteKey(st.groups, old), newName, color))
           bms == [i \in 1..Len(st.bookmarks) |->
                     IF st.bookmarks[i].group = old
                     THEN [st.bookmarks[i] EXCEPT !.group = newName]
                     ELSE st.bookmarks[i]]
           groups == EnsureDecorationForGroup(saved, newName, rnd)
           wasActive == st.activeGroup = old
       IN Outcome(Store(bms, groups,
                        IF wasActive THEN newName ELSE st.stored,
                        IF wasActive THEN newName ELSE st.activeGroup), "Renamed")

\* Variant: the bookmarks of the deleted group are not removed.
DeleteGroup_NoCascade(st, cfg, name, confirm) ==
  IF ~Truthy(name) THEN Outcome(st, "Ignored")
  ELSE IF confirm # "Yes" THEN Outcome(st, "Cancelled")
  ELSE LET groups == Serialize(DeleteKey(st.groups, name))
           remaining == st.bookmarks
           keys == Keys(groups)
           wasActive == st.activeGroup = name
           groups1 == IF wasActive /\ Len(keys) = 0
                      THEN Serialize(Assign(groups, "Default", cfg.defaultColors[1]))
                      ELSE groups
           active == IF ~wasActive THEN st.activeGroup
                     ELSE IF Len(keys) = 0 THEN "Default" ELSE keys[1]
       IN Outcome(Store(remaining, groups1,
                        IF wasActive THEN active ELSE st.stored, active), "Deleted")

\* Variant: the filter keeps the bookmarks of the deleted group instead.
DeleteGroup_InvertedFilter(st, cfg, name, confirm) ==
  IF ~Truthy(name) THEN Outcome(st, "Ignored")
  ELSE IF confirm # "Yes" THEN Outcome(st, "Cancelled")
  ELSE LET groups == Serialize(DeleteKey(st.groups, name))
           remaining == SelectSeq(st.bookmarks, LAMBDA b : b.group = name)
           keys == Keys(groups)
           wasActive == st.activeGroup = name
           groups1 == IF wasActive /\ Len(keys) = 0
                      THEN Serialize(Assign(groups, "Default", cfg.defaultColors[1]))
                      ELSE groups
           active == IF ~wasActive THEN st.activeGroup
                     ELSE IF Len(keys) = 0 THEN "Default" ELSE keys[1]
       IN Outcome(Store(remaining, groups1,
                        IF wasActive THEN active ELSE st.stored, active), "Deleted")

\* Variant: the fallback takes the last remaining key instead of the first.
DeleteGroup_LastKey(st, cfg, name, confirm) ==
  IF ~Truthy(name) THEN Outcome(st, "Ignored")
  ELSE IF confirm # "Yes" THEN Outcome(st, "Cancelled")
  ELSE LET groups == Serialize(DeleteKey(st.groups, name))
           remaining == SelectSeq(st.bookmarks, LAMBDA b : b.group # name)
           keys == Keys(groups)
           wasActive == st.activeGroup = name
           groups1 == IF wasActive /\ Len(keys) = 0
                      THEN Serialize(Assign(groups, "Default", cfg.defaultColors[1]))
                      ELSE groups
           active == IF ~wasActive THEN st.activeGroup
                     ELSE IF Len(keys) = 0 THEN "Default" ELSE keys[Len(keys)]
       IN Outcome(Store(remaining, groups1,
                        IF wasActive THEN active ELSE st.stored, active), "Deleted")

DeleteGroup(st, cfg, name, confirm) ==
  IF ~Truthy(name) THEN Outcome(st, "Ignored")
  ELSE IF confirm # "Yes" THEN Outcome(st, "Cancelled")
  ELSE LET groups == Serialize(DeleteKey(st.groups, name))
           remaining == SelectSeq(st.bookmarks, LAMBDA b : b.group # name)
           keys == Keys(groups)
           wasActive == st.activeGroup = name
           groups1 == IF wasActive /\ Len(keys) = 0
                      THEN Serialize(Assign(groups, "Default", cfg.defaultColors[1]))
                      ELSE groups
           active == IF ~wasActive THEN st.activeGroup
                     ELSE IF Len(keys) = 0 THEN "Default" ELSE keys[1]
       IN Outcome(Store(remaining, groups1,
                        IF wasActive THEN active ELSE st.stored, active), "Deleted")

\* ------------------------------------------------------------- navigation
\* a.uri.localeCompare(b.uri), then a.line - b.line
LocaleCompare(a, b) == IF a = b THEN 0 ELSE IF a = "fileA" THEN -1 ELSE 1
Compare(a, b) == IF a.uri # b.uri THEN LocaleCompare(a.uri, b.uri) ELSE a.line - b.line

\* Array.prototype.sort is stable: records that compare equal keep their order.
RECURSIVE Insert(_, _)
Insert(sorted, b) ==
  IF sorted = <<>> THEN <<b>>
  ELSE IF Compare(sorted[Len(sorted)], b) <= 0 THEN Append(sorted, b)
  ELSE Append(Insert(SubSeq(sorted, 1, Len(sorted) - 1), b), sorted[Len(sorted)])

RECURSIVE Sort(_)
Sort(bms) ==
  IF bms = <<>> THEN <<>>
  ELSE Insert(Sort(SubSeq(bms, 1, Len(bms) - 1)), bms[Len(bms)])

\* Variant: the list is not filtered by the active group.
SortedActive_AllGroups(st) == Sort(st.bookmarks)

SortedActive(st) == Sort(SelectSeq(st.bookmarks, LAMBDA b : b.group = st.activeGroup))

\* findIndex on (uri, line), as a 0-based index, -1 when nothing matches
FindIndexAt(all, cur) ==
  IF \E i \in 1..Len(all) : all[i].uri = cur.uri /\ all[i].line = cur.line
  THEN (CHOOSE i \in 1..Len(all) :
          /\ all[i].uri = cur.uri /\ all[i].line = cur.line
          /\ \A j \in 1..(i - 1) : ~(all[j].uri = cur.uri /\ all[j].line = cur.line)) - 1
  ELSE -1

\* the % operator: the result takes the sign of the dividend
Remainder(a, n) == IF a >= 0 THEN a % n ELSE 0 - ((0 - a) % n)

Moved(st, res, pos) == [st |-> st, res |-> res, cursor |-> pos]

\* Variant: the stored list itself is sorted, not a filtered copy of it.
NextBookmark_SortInPlace(st, cur) ==
  LET all == SortedActive(st)
      idx == Remainder(FindIndexAt(all, cur) + 1, Len(all))
      st1 == [st EXCEPT !.bookmarks = Sort(st.bookmarks)]
  IN IF Len(all) = 0 THEN Moved(st1, "NoBookmarks", cur)
     ELSE Moved(st1, "Revealed", Position(all[idx + 1].uri, all[idx + 1].line))

NextBookmark(st, cur) ==
  LET all == SortedActive(st)
      idx == Remainder(FindIndexAt(all, cur) + 1, Len(all))
  IN IF Len(all) = 0 THEN Moved(st, "NoBookmarks", cur)
     ELSE Moved(st, "Revealed", Position(all[idx + 1].uri, all[idx + 1].line))

PrevBookmark(st, cur) ==
  LET all == SortedActive(st)
      idx == Remainder(FindIndexAt(all, cur) - 1 + Len(all), Len(all))
  IN IF Len(all) = 0 THEN Moved(st, "NoBookmarks", cur)
     ELSE Moved(st, "Revealed", Position(all[idx + 1].uri, all[idx + 1].line))

OpenBookmark(st, bm, cur) == Moved(st, "Revealed", Position(bm.uri, bm.line))

\* BookmarksProvider.getChildren of a file item: the bookmarks of the active
\* group in that file are collected into an array of their own, which is then
\* sorted by line; the stored list is only read.
BookmarksGetChildren(st, file) ==
  LET bms == SelectSeq(st.bookmarks,
                       LAMBDA b : b.group = st.activeGroup /\ b.uri = file)
  IN [st |-> st, res |-> "Rendered", items |-> Sort(bms)]

\* ------------------------------------------------------------ sync engine
\* A content change: range.start.line, range.end.line and the number of "\n"
\* in the replacement text (text.split("\n").length = newlines + 1).
Delta(change) == (change.newlines + 1) - (change.end - change.start + 1)

\* Variant: a bookmark on the start line itself is shifted too.
ApplyChange_Inclusive(bms, docUri, change) ==
  IF Delta(change) = 0 THEN bms
  ELSE [i \in 1..Len(bms) |->
          IF bms[i].uri = docUri /\ change.start <= bms[i].line
          THEN [bms[i] EXCEPT !.line = Max(0, bms[i].line + Delta(change))]
          ELSE bms[i]]

\* Variant: the uri of the changed document is not compared.
ApplyChange_AnyFile(bms, docUri, change) ==
  IF Delta(change) = 0 THEN bms
  ELSE [i \in 1..Len(bms) |->
          IF change.start < bms[i].line
          THEN [bms[i] EXCEPT !.line = Max(0, bms[i].line + Delta(change))]
          ELSE bms[i]]

ApplyChange(bms, docUri, change) ==
  IF Delta(change) = 0 THEN bms
  ELSE [i \in 1..Len(bms) |->
          IF bms[i].uri = docUri /\ change.start < bms[i].line
          THEN [bms[i] EXCEPT !.line = Max(0, bms[i].line + Delta(change))]
          ELSE bms[i]]

\* Variant: the changes of an event are applied last to first.
ApplyChanges_Reversed(bms, docUri, changes) ==
  LET RECURSIVE Run(_, _)
      Run(b, k) == IF k = 0 THEN b
                   ELSE Run(ApplyChange(b, docUri, changes[k]), k - 1)
  IN Run(bms, Len(changes))

RECURSIVE ApplyChanges(_, _, _)
ApplyChanges(bms, docUri, changes) ==
  IF changes = <<>> THEN bms
  ELSE ApplyChanges(ApplyChange(bms, docUri, Head(changes)), docUri, Tail(changes))

\* The handler returns before reading the list when the event has no change;
\* otherwise saveBookmarks(bms) follows the loop, whatever the deltas were.
SavesBookmarks(changes) == Len(changes) # 0

OnDidChangeTextDocument(st, docUri, changes) ==
  IF ~SavesBookmarks(changes) THEN Outcome(st, "Ignored")
  ELSE Outcome([st EXCEPT !.bookmarks = ApplyChanges(st.bookmarks, docUri, changes)],
               "Synced")

\* ----------------------------------------------------------------- inputs
\* A tree item carries the (uri, line, group) its record had when the view
\* was rendered; a document edit shifts stored lines without refreshing the
\* views, so an item may match no stored record.
Item(uri, line, group) == [uri |-> uri, line |-> line, group |-> group]
AllItems == {Item(u, l, g) : u \in Files, l \in Lines, g \in GroupNames}
ItemOf(b) == Item(b.uri, b.line, b.group)
Present(bms) == {ItemOf(bms[i]) : i \in 1..Len(bms)}
Items(bms) ==
  Present(bms) \cup
  (IF AllItems \ Present(bms) = {} THEN {}
   ELSE {CHOOSE k \in AllItems : k \notin Present(bms)})

Change(start, end, newlines) == [start |-> start, end |-> end, newlines |-> newlines]
Changes ==
  {c \in {Change(s, e, n) : s \in Lines, e \in Lines, n \in 0..MaxNewlines} :
     c.start <= c.end}
ContentChanges == UNION {[1..k -> Changes] : k \in 1..MaxChanges}

\* ---------------------------------------------------------------- history
\* last: the most recent handler, its inputs, its outcome and the stores
\* (pre) and the selection (at) as they were when it started.  pair/first: the handler before it was a
\* toggle with the same inputs (first = that toggle's outcome and stores).
NoArg ==
  [uri |-> Undefined, line |-> 0, content |-> Undefined, group |-> Undefined,
   name |-> Undefined, target |-> Undefined, answer |-> Undefined,
   changes |-> <<>>]
NoFirst == [res |-> Undefined, bookmarks |-> <<>>]

StepAt(op, arg, cfg, out, pos) ==
  LET pair == op = "toggleBookmark" /\ last.op = op /\ last.arg = arg
  IN /\ bookmarks' = out.st.bookmarks
     /\ bookmarkGroups' = out.st.groups
     /\ activeBookmarkGroup' = out.st.stored
     /\ activeGroup' = out.st.activeGroup
     /\ config' = cfg
     /\ cursor' = pos
     /\ last' = [op |-> op, arg |-> arg, res |-> out.res, pre |-> Current,
                 at |-> cursor, pair |-> pair,
                 first |-> IF pair
                           THEN [res |-> last.res, bookmarks |-> last.pre.bookmarks]
                           ELSE NoFirst]
     /\ steps' = steps + 1
     /\ UNCHANGED <<pending, begun>>

\* A handler that leaves the selection where it is.
Step(op, arg, cfg, out) == StepAt(op, arg, cfg, out, cursor)

\* ---------------------------------------------------------------- actions
bm_toggleBookmark ==
  \E content \in Contents :
    /\ steps < MaxSteps
    /\ Step("toggleBookmark",
         [NoArg EXCEPT !.uri = cursor.uri, !.line = cursor.line, !.content = content],
         config, ToggleBookmark(Current, config, cursor.uri, cursor.line, content))

bm_clearBookmarks ==
  \E confirm \in Answers :
    /\ steps < MaxSteps
    /\ Step("clearBookmarks", [NoArg EXCEPT !.answer = confirm], config,
         ClearBookmarks(Current, confirm))

bm_removeBookmark ==
  \E bm \in Items(bookmarks) :
    /\ steps < MaxSteps
    /\ Step("removeBookmark",
         [NoArg EXCEPT !.uri = bm.uri, !.line = bm.line, !.group = bm.group],
         config, RemoveBookmark(Current, bm))

bm_moveBookmarkToGroup ==
  \E bm \in Items(bookmarks) :
    \E target \in {OtherGroups(Current, bm)[i] : i \in 1..Len(OtherGroups(Current, bm))}
                    \cup {Undefined} :
      /\ steps < MaxSteps
      /\ Step("moveBookmarkToGroup",
           [NoArg EXCEPT !.uri = bm.uri, !.line = bm.line, !.group = bm.group,
                         !.target = target],
           config, MoveBookmarkToGroup(Current, bm, target))

GroupsProvider_handleDrop ==
  \E bookmark \in Items(bookmarks) :
    \E target \in {Keys(bookmarkGroups)[i] : i \in 1..Len(bookmarkGroups)} :
      /\ steps < MaxSteps
      /\ Step("GroupsProvider.handleDrop",
           [NoArg EXCEPT !.uri = bookmark.uri, !.line = bookmark.line,
                         !.group = bookmark.group, !.target = target],
           config, GroupsHandleDrop(Current, bookmark, target))

BookmarksProvider_handleDrop ==
  \E groupName \in GroupNames :
    /\ steps < MaxSteps
    /\ Step("BookmarksProvider.handleDrop", [NoArg EXCEPT !.name = groupName],
         config, BookmarksHandleDrop(Current, groupName))

bm_setActiveGroup ==
  \E group \in GroupNames :
    /\ steps < MaxSteps
    /\ Step("setActiveGroup", [NoArg EXCEPT !.name = group], config,
         SetActiveGroup(Current, group))

bm_createGroup ==
  \E name \in GroupNames \cup {Undefined}, rnd \in RandomColors :
    /\ steps < MaxSteps
    /\ Step("createGroup", [NoArg EXCEPT !.name = name], config,
         CreateGroup(Current, name, rnd))

bm_renameGroup ==
  \E old \in GroupNames, newName \in GroupNames \cup {Undefined}, rnd \in RandomColors :
    /\ steps < MaxSteps
    /\ Step("renameGroup", [NoArg EXCEPT !.name = old, !.target = newName], config,
         RenameGroup(Current, old, newName, rnd))

bm_deleteGroup ==
  \E name \in GroupNames, confirm \in Answers :
    /\ steps < MaxSteps
    /\ Step("deleteGroup", [NoArg EXCEPT !.name = name, !.answer = confirm], config,
         DeleteGroup(Current, config, name, confirm))

onDidChangeTextDocument ==
  \E docUri \in Files, changes \in ContentChanges :
    LET out == OnDidChangeTextDocument(Current, docUri, changes)
    IN /\ steps < MaxSteps
       /\ \A i \in 1..Len(out.st.bookmarks) : out.st.bookmarks[i].line <= MaxLine
       /\ Step("onDidChangeTextDocument",
               [NoArg EXCEPT !.uri = docUri, !.changes = changes], config, out)

onDidChangeConfiguration ==
  \E cfg \in Configs :
    /\ steps < MaxSteps
    /\ cfg # config
    /\ Step("onDidChangeConfiguration", NoArg, cfg, ApplyConfigChanges(Current, cfg))

bm_refreshDecorationsFromConfig ==
  /\ steps < MaxSteps
  /\ Step("refreshDecorationsFromConfig", NoArg, config,
       ApplyConfigChanges(Current, config))

bm_nextBookmark ==
  /\ steps < MaxSteps
  /\ LET out == NextBookmark(Current, cursor)
     IN StepAt("nextBookmark", NoArg, config, out, out.cursor)

bm_prevBookmark ==
  /\ steps < MaxSteps
  /\ LET out == PrevBookmark(Current, cursor)
     IN StepAt("prevBookmark", NoArg, config, out, out.cursor)

bm_openBookmark ==
  \E bm \in Items(bookmarks) :
    /\ steps < MaxSteps
    /\ LET out == OpenBookmark(Current, bm, cursor)
       IN StepAt("openBookmark",
                 [NoArg EXCEPT !.uri = bm.uri, !.line = bm.line, !.group = bm.group],
                 config, out, out.cursor)

BookmarksProvider_getChildren ==
  \E file \in Files :
    /\ steps < MaxSteps
    /\ Step("BookmarksProvider.getChildren", [NoArg EXCEPT !.uri = file], config,
            BookmarksGetChildren(Current, file))

\* The user moves the selection; the handler (updateCursorContext) only sets
\* a context key.
onDidChangeTextEditorSelection ==
  \E pos \in Positions :
    /\ steps < MaxSteps
    /\ pos # cursor
    /\ StepAt("onDidChangeTextEditorSelection",
              [NoArg EXCEPT !.uri = pos.uri, !.line = pos.line],
              config, Outcome(Current, "Selected"), pos)

\* Window reload: activate() runs again on the persisted slots.
activate ==
  /\ steps < MaxSteps
  /\ Step("activate", NoArg, config,
       Outcome(InitializeGroupsAndColors(Current, config), "Activated"))

\* ------------------------------------------------------------------ Init
\* Persisted slots found by activate(): a fresh workspace, or the slots left
\* by an earlier session (toggle fileA:0; createGroup Tests; toggle fileA:1,
\* fileA:2 and fileB:1, under the default settings).
FreshWorkspace == Store(<<>>, <<>>, Undefined, Undefined)
UsedWorkspace ==
  Store(<<Bookmark("fileA", 0, "x", "Default"),
          Bookmark("fileA", 1, "x", "Tests"),
          Bookmark("fileA", 2, "x", "Tests"),
          Bookmark("fileB", 1, "x", "Tests")>>,
        <<[name |-> "Default", color |-> "#fff59d"],
          [name |-> "Tests", color |-> "#hslA"]>>,
        "Tests", Undefined)
Workspaces == {FreshWorkspace, UsedWorkspace}

Init ==
  \E ws \in Workspaces, cfg \in Configs, pos \in Positions :
    LET st == InitializeGroupsAndColors(ws, cfg)
    IN /\ bookmarks = st.bookmarks
       /\ bookmarkGroups = st.groups
       /\ activeBookmarkGroup = st.stored
       /\ activeGroup = st.activeGroup
       /\ config = cfg
       /\ cursor = pos
       /\ last = [op |-> "activate", arg |-> NoArg, res |-> "Activated",
                  pre |-> ws, at |-> pos, pair |-> FALSE, first |-> NoFirst]
       /\ steps = 0
       /\ pending = <<>>
       /\ begun = [base |-> st, ops |-> <<>>, overlap |-> FALSE]

Next ==
  \/ bm_toggleBookmark
  \/ bm_clearBookmarks
  \/ bm_removeBookmark
  \/ bm_moveBookmarkToGroup
  \/ GroupsProvider_handleDrop
  \/ BookmarksProvider_handleDrop
  \/ bm_setActiveGroup
  \/ bm_createGroup
  \/ bm_renameGroup
  \/ bm_deleteGroup
  \/ bm_nextBookmark
  \/ bm_prevBookmark
  \/ bm_openBookmark
  \/ BookmarksProvider_getChildren
  \/ onDidChangeTextEditorSelection
  \/ onDidChangeTextDocument
  \/ onDidChangeConfiguration
  \/ bm_refreshDecorationsFromConfig
  \/ activate

Spec == Init /\ [][Next]_vars

\* =================================================== events of many changes
\* The sync handler alone, on events that carry up to MaxBatch changes.
MaxBatch == 2
MaxEvents == 1
\* A document has lines below the last bookmarked one: the range of a change
\* may end one line further than the bookmarks reach.
DocLines == 0..(MaxLine + 1)
EventChanges ==
  {c \in {Change(s, e, n) : s \in DocLines, e \in DocLines, n \in 0..MaxNewlines} :
     c.start <= c.end}
Events == UNION {[1..k -> EventChanges] : k \in 1..MaxBatch}

onDidChangeTextDocument_event ==
  \E docUri \in Files, changes \in Events :
    /\ steps < MaxEvents
    /\ Step("onDidChangeTextDocument",
            [NoArg EXCEPT !.uri = docUri, !.changes = changes], config,
            OnDidChangeTextDocument(Current, docUri, changes))

\* The stores of Init under the default settings, the selection on the
\* first line of fileA.
InitSync ==
  \E ws \in Workspaces :
    LET cfg == SettingsDefault
        st == InitializeGroupsAndColors(ws, cfg)
        pos == Position("fileA", 0)
    IN /\ bookmarks = st.bookmarks
       /\ bookmarkGroups = st.groups
       /\ activeBookmarkGroup = st.stored
       /\ activeGroup = st.activeGroup
       /\ config = cfg
       /\ cursor = pos
       /\ last = [op |-> "activate", arg |-> NoArg, res |-> "Activated",
                  pre |-> ws, at |-> pos, pair |-> FALSE, first |-> NoFirst]
       /\ steps = 0
       /\ pending = <<>>
       /\ begun = [base |-> st, ops |-> <<>>, overlap |-> FALSE]

NextSync == onDidChangeTextDocument_event

SpecSync == InitSync /\ [][NextSync]_vars

\* ======================================================= handlers at awaits
\* The same handlers, one step per stretch of code between two awaits: an
\* invocation runs up to the handler's first await, a later step runs it from
\* one await to the next.  workspaceState.update changes the value that get
\* returns at once; the await on its result is where other handlers can run.
\* The code after a handler's last write only refreshes the views, so the
\* handler is finished ("done") with that write.
MaxHandlers == 2

\* A handler's arguments and the local variables it reads after an await.
Task(op, uri, line, content, name) ==
  [op |-> op, pc |-> "start", uri |-> uri, line |-> line, content |-> content,
   name |-> name, target |-> Undefined, names |-> <<>>, groups |-> <<>>,
   bms |-> <<>>]
Ran(st, t, pc) == [st |-> st, task |-> [t EXCEPT !.pc = pc]]

\* const bms = getBookmarks(); findIndex; splice or push; saveBookmarks(bms)
ToggleWrite(st, t) ==
  LET bms == st.bookmarks
      idx == FindIndex(bms, t.uri, t.line, st.activeGroup)
  IN Ran([st EXCEPT !.bookmarks =
            IF idx >= 1 THEN Splice(bms, idx)
            ELSE Append(bms, Bookmark(t.uri, t.line, t.content, st.activeGroup))],
         t, "done")

\* Variant: the list is read when the handler starts and written after an
\* await.
ToggleRun_ReadBeforeAwait(st, cfg, t) ==
  LET names == Keys(st.groups)
      invalid == ~Truthy(Lookup(st.groups, st.activeGroup))
      idx == FindIndex(t.bms, t.uri, t.line, st.activeGroup)
  IN CASE t.pc = "start" /\ invalid /\ Len(names) = 0 ->
            Ran([st EXCEPT !.groups =
                   Serialize(Assign(st.groups, "Default", cfg.defaultColors[1]))],
                [t EXCEPT !.names = names, !.bms = st.bookmarks], "saveGroups")
       [] t.pc = "start" /\ invalid /\ Len(names) > 0 ->
            Ran([st EXCEPT !.activeGroup = names[1], !.stored = names[1]],
                [t EXCEPT !.names = names, !.bms = st.bookmarks], "setActiveGroup")
       [] t.pc = "start" /\ ~invalid ->
            Ran(st, [t EXCEPT !.bms = st.bookmarks], "setActiveGroup")
       [] t.pc = "saveGroups" ->
            LET active == IF Len(t.names) > 0 THEN t.names[1] ELSE "Default"
            IN Ran([st EXCEPT !.activeGroup = active, !.stored = active], t,
                   "setActiveGroup")
       [] t.pc = "setActiveGroup" ->
            Ran([st EXCEPT !.bookmarks =
                   IF idx >= 1 THEN Splice(t.bms, idx)
                   ELSE Append(t.bms, Bookmark(t.uri, t.line, t.content, st.activeGroup))],
                [t EXCEPT !.bms = <<>>], "done")

ToggleRun(st, cfg, t) ==
  LET names == Keys(st.groups)
      invalid == ~Truthy(Lookup(st.groups, st.activeGroup))
  IN CASE t.pc = "start" /\ invalid /\ Len(names) = 0 ->
            Ran([st EXCEPT !.groups =
                   Serialize(Assign(st.groups, "Default", cfg.defaultColors[1]))],
                [t EXCEPT !.names = names], "saveGroups")
       [] t.pc = "start" /\ invalid /\ Len(names) > 0 ->
            Ran([st EXCEPT !.activeGroup = names[1], !.stored = names[1]],
                [t EXCEPT !.names = names], "setActiveGroup")
       [] t.pc = "start" /\ ~invalid -> ToggleWrite(st, t)
       [] t.pc = "saveGroups" ->
            LET active == IF Len(t.names) > 0 THEN t.names[1] ELSE "Default"
            IN Ran([st EXCEPT !.activeGroup = active, !.stored = active], t,
                   "setActiveGroup")
       [] t.pc = "setActiveGroup" -> ToggleWrite(st, t)

\* newName: the answer of the input box; rnd: the colour ensureDecorationForGroup
\* would generate.
RenameRun(st, t, newName, rnd) ==
  LET old == t.name
  IN CASE t.pc = "start" -> Ran(st, t, "showInputBox")
       [] t.pc = "showInputBox" ->
            IF ~Truthy(newName) \/ newName = old THEN Ran(st, t, "done")
            ELSE IF Truthy(Lookup(st.groups, newName)) THEN Ran(st, t, "done")
            ELSE Ran([st EXCEPT !.groups =
                        Serialize(Assign(DeleteKey(st.groups, old), newName,
                                         Lookup(st.groups, old)))],
                     [t EXCEPT !.target = newName], "saveGroups")
       [] t.pc = "saveGroups" ->
            Ran([st EXCEPT !.bookmarks =
                   [i \in 1..Len(st.bookmarks) |->
                      IF st.bookmarks[i].group = old
                      THEN [st.bookmarks[i] EXCEPT !.group = t.target]
                      ELSE st.bookmarks[i]]],
                t, "saveBookmarks")
       [] t.pc = "saveBookmarks" ->
            LET groups == EnsureDecorationForGroup(st.groups, t.target, rnd)
            IN IF st.activeGroup = old
               THEN Ran([st EXCEPT !.groups = groups, !.activeGroup = t.target,
                                   !.stored = t.target], t, "done")
               ELSE Ran([st EXCEPT !.groups = groups], t, "done")

\* confirm: the answer of the warning prompt.  own: whether the handler's
\* `groups` is a copy of its own (update stored a clone) or still the object
\* the store holds (update kept the reference).
DeleteRun(st, cfg, t, confirm, own) ==
  LET name == t.name
  IN CASE t.pc = "start" -> Ran(st, t, "showWarningMessage")
       [] t.pc = "showWarningMessage" ->
            IF confirm # "Yes" THEN Ran(st, t, "done")
            ELSE LET groups == Serialize(DeleteKey(st.groups, name))
                 IN Ran([st EXCEPT !.groups = groups], [t EXCEPT !.groups = groups],
                        "saveGroups")
       [] t.pc = "saveGroups" ->
            Ran([st EXCEPT !.bookmarks =
                   SelectSeq(st.bookmarks, LAMBDA b : b.group # name)],
                t, "saveBookmarks")
       [] t.pc = "saveBookmarks" ->
            LET groups == IF own THEN t.groups ELSE st.groups
                keys == Keys(groups)
            IN IF st.activeGroup # name THEN Ran(st, t, "done")
               ELSE IF Len(keys) = 0
               THEN Ran([st EXCEPT !.groups =
                           Serialize(Assign(groups, "Default", cfg.defaultColors[1]))],
                        t, "saveGroupsDefault")
               ELSE Ran([st EXCEPT !.activeGroup = keys[1], !.stored = keys[1]], t,
                        "done")
       [] t.pc = "saveGroupsDefault" ->
            Ran([st EXCEPT !.activeGroup = "Default", !.stored = "Default"], t, "done")

Writes(ran) ==
  /\ bookmarks' = ran.st.bookmarks
  /\ bookmarkGroups' = ran.st.groups
  /\ activeBookmarkGroup' = ran.st.stored
  /\ activeGroup' = ran.st.activeGroup
  /\ UNCHANGED <<config, cursor, last, steps>>

\* A handler is invoked and runs to its first await.
Invoke(t, ran) ==
  /\ Writes(ran)
  /\ pending' = IF ran.task.pc = "done" THEN pending ELSE Append(pending, ran.task)
  /\ begun' = [base |-> IF begun.ops = <<>> THEN Current ELSE begun.base,
               ops |-> Append(begun.ops, t),
               overlap |-> begun.overlap \/ pending # <<>>]

\* The k-th suspended handler runs to its next await, or to its end.
Resume(k, ran) ==
  /\ Writes(ran)
  /\ pending' = IF ran.task.pc = "done"
                THEN SubSeq(pending, 1, k - 1) \o SubSeq(pending, k + 1, Len(pending))
                ELSE [pending EXCEPT ![k] = ran.task]
  /\ UNCHANGED begun

bm_toggleBookmark_invoke ==
  \E content \in Contents :
    LET t == Task("toggleBookmark", cursor.uri, cursor.line, content, Undefined)
    IN /\ Len(begun.ops) < MaxHandlers
       /\ Invoke(t, ToggleRun(Current, config, t))

bm_toggleBookmark_resume ==
  \E k \in 1..Len(pending) :
    /\ pending[k].op = "toggleBookmark"
    /\ Resume(k, ToggleRun(Current, config, pending[k]))

\* The group items of the groups view, as rendered from the current map.
GroupItems == {Keys(bookmarkGroups)[i] : i \in 1..Len(bookmarkGroups)}

bm_renameGroup_invoke ==
  \E old \in GroupItems :
    LET t == Task("renameGroup", Undefined, 0, Undefined, old)
    IN /\ Len(begun.ops) < MaxHandlers
       /\ Invoke(t, RenameRun(Current, t, Undefined, Undefined))

bm_renameGroup_resume ==
  \E k \in 1..Len(pending), newName \in GroupNames \cup {Undefined}, rnd \in RandomColors :
    /\ pending[k].op = "renameGroup"
    /\ Resume(k, RenameRun(Current, pending[k], newName, rnd))

bm_deleteGroup_invoke ==
  \E name \in GroupItems :
    LET t == Task("deleteGroup", Undefined, 0, Undefined, name)
    IN /\ Len(begun.ops) < MaxHandlers
       /\ Invoke(t, DeleteRun(Current, config, t, Undefined, TRUE))

bm_deleteGroup_resume ==
  \E k \in 1..Len(pending), confirm \in Answers, own \in BOOLEAN :
    /\ pending[k].op = "deleteGroup"
    /\ Resume(k, DeleteRun(Current, config, pending[k], confirm, own))

\* The stores the handlers start from, under the default settings: those of
\* Init, those left by a set-active command naming TODO, or those left by
\* that command and a confirmed delete of Default; the selection is on one of
\* the first two lines of fileA.
InitAwait ==
  \E ws \in Workspaces, pos \in {p \in Positions : p.uri = "fileA" /\ p.line <= 1} :
    LET cfg == SettingsDefault
        st0 == InitializeGroupsAndColors(ws, cfg)
        st1 == SetActiveGroup(st0, "TODO").st
        st2 == DeleteGroup(st1, cfg, "Default", "Yes").st
    IN \E st \in {st0, st1, st2} :
         /\ bookmarks = st.bookmarks
         /\ bookmarkGroups = st.groups
         /\ activeBookmarkGroup = st.stored
         /\ activeGroup = st.activeGroup
         /\ config = cfg
         /\ cursor = pos
         /\ last = [op |-> "activate", arg |-> NoArg, res |-> "Activated",
                    pre |-> ws, at |-> pos, pair |-> FALSE, first |-> NoFirst]
         /\ steps = 0
         /\ pending = <<>>
         /\ begun = [base |-> st, ops |-> <<>>, overlap |-> FALSE]

NextAwait ==
  \/ bm_toggleBookmark_invoke
  \/ bm_toggleBookmark_resume
  \/ bm_renameGroup_invoke
  \/ bm_renameGroup_resume
  \/ bm_deleteGroup_invoke
  \/ bm_deleteGroup_resume

SpecAwait == InitAwait /\ [][NextAwait]_vars

\* ===================================================== the prompt of clear
\* bm.clearBookmarks, one step up to its confirmation prompt and one step
\* from the answer on, with set-active commands and toggles dispatched while
\* the prompt is open.
\* The task keeps in `name` the group the prompt's message names.
ClearRun(st, t, confirm) ==
  LET active == SelectSeq(st.bookmarks, LAMBDA b : b.group = st.activeGroup)
      filtered == SelectSeq(st.bookmarks, LAMBDA b : b.group # st.activeGroup)
  IN CASE t.pc = "start" ->
            IF Len(active) = 0 THEN Ran(st, t, "done")
            ELSE Ran(st, [t EXCEPT !.name = st.activeGroup], "showWarningMessage")
       [] t.pc = "showWarningMessage" ->
            IF confirm # "Yes" THEN Ran(st, t, "done")
            ELSE Ran([st EXCEPT !.bookmarks = filtered], t, "done")

bm_clearBookmarks_invoke ==
  LET t == Task("clearBookmarks", Undefined, 0, Undefined, Undefined)
  IN /\ Len(begun.ops) < MaxHandlers
     /\ Invoke(t, ClearRun(Current, t, Undefined))

\* The prompt is answered; last records the answer, the group the prompt
\* named and the stores as they were when the answer arrived.
bm_clearBookmarks_resume ==
  \E k \in 1..Len(pending), confirm \in Answers :
    LET ran == ClearRun(Current, pending[k], confirm)
    IN /\ pending[k].op = "clearBookmarks"
       /\ bookmarks' = ran.st.bookmarks
       /\ bookmarkGroups' = ran.st.groups
       /\ activeBookmarkGroup' = ran.st.stored
       /\ activeGroup' = ran.st.activeGroup
       /\ last' = [op |-> "clearBookmarks",
                   arg |-> [NoArg EXCEPT !.answer = confirm, !.name = pending[k].name],
                   res |-> IF confirm = "Yes" THEN "Cleared" ELSE "Cancelled",
                   pre |-> Current, at |-> cursor, pair |-> FALSE, first |-> NoFirst]
       /\ pending' = SubSeq(pending, 1, k - 1) \o SubSeq(pending, k + 1, Len(pending))
       /\ UNCHANGED <<config, cursor, steps, begun>>

\* bm.setActiveGroup on a group item of the groups view: the variable and the
\* slot are written before the handler's first await.
bm_setActiveGroup_invoke ==
  \E group \in GroupItems :
    LET t == Task("setActiveGroup", Undefined, 0, Undefined, group)
    IN /\ Len(begun.ops) < MaxHandlers
       /\ Invoke(t, Ran(SetActiveGroup(Current, group).st, t, "done"))

NextPrompt ==
  \/ bm_clearBookmarks_invoke
  \/ bm_clearBookmarks_resume
  \/ bm_setActiveGroup_invoke
  \/ bm_toggleBookmark_invoke
  \/ bm_toggleBookmark_resume

SpecPrompt == InitAwait /\ [][NextPrompt]_vars

\* ================================================================ claims
Pre == last.pre
Arg == last.arg
Did(op, res) == last.op = op /\ last.res = res
RecordSet(bms) == {bms[i] : i \in 1..Len(bms)}
KeySet(groups) == {groups[i].name : i \in 1..Len(groups)}
Matches(bms, uri, line, group) ==
  {i \in 1..Len(bms) : bms[i].uri = uri /\ bms[i].line = line /\ bms[i].group = group}
Without(bms, i) == [j \in 1..(Len(bms) - 1) |-> IF j < i THEN bms[j] ELSE bms[j + 1]]

\* C1 (uniqueness): the bookmark list never holds two records with the same
\* (file, line, group).
C1_Uniqueness ==
  \A i, j \in 1..Len(bookmarks) :
    (i # j) => ItemOf(bookmarks[i]) # ItemOf(bookmarks[j])

C3_ActivePointerValid == activeGroup \in KeySet(bookmarkGroups)

\* C4 (never-empty groups): the group map always holds at least one group.
C4_NeverEmptyGroups == Len(bookmarkGroups) >= 1

\* C5 as claimed (toggle pair): two consecutive toggles with the same cursor
\* position leave the set of bookmark records as it was before the first.
C5_TogglePairRestoresSet ==
  last.pair => RecordSet(bookmarks) = RecordSet(last.first.bookmarks)

\* C5 as amended: when the first toggle adds, the pair restores the list
\* exactly; when the first toggle removes, the pair restores the set provided
\* the removed record was the only one with its key and held the line's
\* current text.
C5_TogglePairAmended ==
  last.pair =>
    LET before == last.first.bookmarks
        same == Matches(before, Arg.uri, Arg.line, activeGroup)
    IN /\ last.first.res = "Added" => bookmarks = before
       /\ (/\ last.first.res = "Removed"
           /\ Cardinality(same) = 1
           /\ \A i \in same : before[i].content = Arg.content)
          => RecordSet(bookmarks) = RecordSet(before)

C5_Witness ==
  /\ last.pair
  /\ last.first.res = "Added"
  /\ last.res = "Removed"
  /\ Len(bookmarks) > 0

\* C6 (toggle): with g the active group, toggle at (f,l) removes one record
\* with key (f,l,g) when one exists and otherwise appends (f,l,content,g);
\* records with any other key, same line in other groups included, keep
\* their value and order.
C6_ToggleAddsOrRemoves ==
  last.op = "toggleBookmark" =>
    LET before == Pre.bookmarks
        g == activeGroup
        same == Matches(before, Arg.uri, Arg.line, g)
        Other(b) == ~SameKey(b, Arg.uri, Arg.line, g)
    IN /\ same # {} =>
            /\ last.res = "Removed"
            /\ \E i \in same : bookmarks = Without(before, i)
       /\ same = {} =>
            /\ last.res = "Added"
            /\ bookmarks = Append(before, Bookmark(Arg.uri, Arg.line, Arg.content, g))
       /\ SelectSeq(bookmarks, Other) = SelectSeq(before, Other)

C6_Witness ==
  /\ Did("toggleBookmark", "Added")
  /\ \E i \in 1..Len(Pre.bookmarks) :
       /\ Pre.bookmarks[i].uri = Arg.uri
       /\ Pre.bookmarks[i].line = Arg.line
       /\ Pre.bookmarks[i].group # activeGroup
       /\ bookmarks[i] = Pre.bookmarks[i]

\* C7 (edit-delta rule): a single change with start line s and delta d # 0 in
\* file F moves every bookmark of F with line > s to max(0, line + d) and
\* keeps every other line; lines [5,10,20] with s=7, d=+3 give [5,13,23] and
\* with s=20, d=-2 stay; no line is negative.
ExampleBookmarks ==
  <<Bookmark("fileA", 5, "x", "Default"), Bookmark("fileA", 10, "x", "Default"),
    Bookmark("fileA", 20, "x", "Default")>>
LinesOf(bms) == [i \in 1..Len(bms) |-> bms[i].line]

C7_EditDeltaRule ==
  /\ \A i \in 1..Len(bookmarks) : bookmarks[i].line >= 0
  /\ LinesOf(ApplyChanges(ExampleBookmarks, "fileA", <<Change(7, 7, 3)>>)) = <<5, 13, 23>>
  /\ LinesOf(ApplyChanges(ExampleBookmarks, "fileA", <<Change(20, 22, 0)>>)) = <<5, 10, 20>>
  /\ (Did("onDidChangeTextDocument", "Synced") /\ Len(Arg.changes) = 1) =>
       LET s == Arg.changes[1].start
           d == (Arg.changes[1].newlines + 1) - (Arg.changes[1].end - s + 1)
           before == Pre.bookmarks
       IN d # 0 =>
            /\ Len(bookmarks) = Len(before)
            /\ \A i \in 1..Len(before) :
                 bookmarks[i] =
                   IF before[i].uri = Arg.uri /\ before[i].line > s
                   THEN [before[i] EXCEPT !.line = IF before[i].line + d < 0 THEN 0
                                                   ELSE before[i].line + d]
                   ELSE before[i]

C7_Witness ==
  /\ Did("onDidChangeTextDocument", "Synced")
  /\ Len(Arg.changes) = 1
  /\ \E i, j \in 1..Len(bookmarks) :
       /\ Pre.bookmarks[i].uri = Arg.uri /\ Pre.bookmarks[j].uri = Arg.uri
       /\ bookmarks[i].line # Pre.bookmarks[i].line
       /\ Pre.bookmarks[j].line <= Arg.changes[1].start
       /\ bookmarks[j].line = Pre.bookmarks[j].line

\* C8 (frame of a document change): an event for file F changes no field of
\* any bookmark whose file is not F.
C8_OtherFilesUntouched ==
  last.op = "onDidChangeTextDocument" =>
    /\ Len(bookmarks) = Len(Pre.bookmarks)
    /\ \A i \in 1..Len(bookmarks) :
         Pre.bookmarks[i].uri # Arg.uri => bookmarks[i] = Pre.bookmarks[i]

C8_Witness ==
  /\ Did("onDidChangeTextDocument", "Synced")
  /\ bookmarks # Pre.bookmarks
  /\ \E i \in 1..Len(bookmarks), k \in 1..Len(Arg.changes) :
       /\ Pre.bookmarks[i].uri # Arg.uri
       /\ Delta(Arg.changes[k]) # 0
       /\ Arg.changes[k].start < Pre.bookmarks[i].line

\* C9 as claimed (deletion cascade): a confirmed deleteGroup(name) removes the
\* bookmarks of name and no others, and the group map loses exactly the entry
\* name.
C9_DeleteCascadeExact ==
  Did("deleteGroup", "Deleted") =>
    /\ bookmarks = SelectSeq(Pre.bookmarks, LAMBDA b : b.group # Arg.name)
    /\ bookmarkGroups = SelectSeq(Pre.groups, LAMBDA e : e.name # Arg.name)

\* C9 as amended: as claimed, except that when name was the active group and
\* no other group is left the map becomes {Default: first default colour}.
C9_DeleteCascadeAmended ==
  Did("deleteGroup", "Deleted") =>
    LET rest == SelectSeq(Pre.groups, LAMBDA e : e.name # Arg.name)
    IN /\ bookmarks = SelectSeq(Pre.bookmarks, LAMBDA b : b.group # Arg.name)
       /\ bookmarkGroups =
            IF Pre.activeGroup = Arg.name /\ rest = <<>>
            THEN <<[name |-> "Default", color |-> config.defaultColors[1]]>>
            ELSE rest

C9_Witness ==
  /\ Did("deleteGroup", "Deleted")
  /\ Len(bookmarks) > 0
  /\ Len(bookmarks) < Len(Pre.bookmarks)
  /\ Len(bookmarkGroups) = Len(Pre.groups) - 1

\* C10 (active fallback on delete): deleting the active group makes the first
\* remaining key active, or leaves exactly {Default: first default colour}
\* with Default active when none remains; deleting another group leaves the
\* active group unchanged.
C10_ActiveFallback ==
  Did("deleteGroup", "Deleted") =>
    LET rest == SelectSeq(Pre.groups, LAMBDA e : e.name # Arg.name)
    IN IF Pre.activeGroup # Arg.name
       THEN activeGroup = Pre.activeGroup /\ activeBookmarkGroup = Pre.stored
       ELSE IF rest # <<>>
       THEN activeGroup = rest[1].name /\ activeBookmarkGroup = rest[1].name
       ELSE /\ bookmarkGroups =
                 <<[name |-> "Default", color |-> config.defaultColors[1]]>>
            /\ activeGroup = "Default"
            /\ activeBookmarkGroup = "Default"

C10_Witness ==
  /\ Did("deleteGroup", "Deleted")
  /\ Pre.activeGroup = Arg.name
  /\ Len(bookmarkGroups) >= 2
  /\ activeGroup = bookmarkGroups[1].name

\* C11 (rename cascade): renameGroup(old,new) with old existing and new absent
\* leaves the map with new holding exactly old's colour, without old, every
\* other entry unchanged; every bookmark of old has group new with file, line
\* and content unchanged, other bookmarks are unchanged; the active group is
\* new if it was old and is otherwise unchanged.
C11_RenameCascade ==
  (Did("renameGroup", "Renamed") /\ Arg.name \in KeySet(Pre.groups)) =>
    LET old == Arg.name
        new == Arg.target
    IN /\ new \notin KeySet(Pre.groups)
       /\ KeySet(bookmarkGroups) = (KeySet(Pre.groups) \ {old}) \cup {new}
       /\ Lookup(bookmarkGroups, new) = Lookup(Pre.groups, old)
       /\ \A n \in KeySet(Pre.groups) \ {old} :
            Lookup(bookmarkGroups, n) = Lookup(Pre.groups, n)
       /\ Len(bookmarkGroups) = Len(Pre.groups)
       /\ Len(bookmarks) = Len(Pre.bookmarks)
       /\ \A i \in 1..Len(bookmarks) :
            bookmarks[i] = IF Pre.bookmarks[i].group = old
                           THEN [Pre.bookmarks[i] EXCEPT !.group = new]
                           ELSE Pre.bookmarks[i]
       /\ activeGroup = IF Pre.activeGroup = old THEN new ELSE Pre.activeGroup
       /\ activeBookmarkGroup = IF Pre.activeGroup = old THEN new ELSE Pre.stored

C11_Witness ==
  /\ Did("renameGroup", "Renamed")
  /\ Arg.name \in KeySet(Pre.groups)
  /\ Pre.activeGroup = Arg.name
  /\ Len(bookmarkGroups) >= 2
  /\ \E i, j \in 1..Len(bookmarks) :
       /\ Pre.bookmarks[i].group = Arg.name
       /\ Pre.bookmarks[j].group # Arg.name

\* C12 (navigator order and wraparound): with the cursor on the i-th bookmark
\* of the active group's bookmarks sorted by file then line, next moves the
\* cursor to the (i+1)-th and from the last to the first, prev moves it to the
\* (i-1)-th and from the first to the last; for [(fileA,3),(fileA,9),(fileB,1)]
\* next from (fileB,1) gives (fileA,3) and prev from (fileA,3) gives (fileB,1).
NavigatorExample ==
  Store(<<Bookmark("fileB", 1, "x", "Default"), Bookmark("fileA", 9, "x", "Default"),
          Bookmark("fileA", 3, "x", "Default")>>,
        <<[name |-> "Default", color |-> "#fff59d"]>>, "Default", "Default")
OnBookmark(all, i, pos) == all[i].uri = pos.uri /\ all[i].line = pos.line
PositionOf(b) == [uri |-> b.uri, line |-> b.line]

C12_NavigatorOrder ==
  /\ NextBookmark(NavigatorExample, [uri |-> "fileB", line |-> 1]).cursor
       = [uri |-> "fileA", line |-> 3]
  /\ PrevBookmark(NavigatorExample, [uri |-> "fileA", line |-> 3]).cursor
       = [uri |-> "fileB", line |-> 1]
  /\ last.op \in {"nextBookmark", "prevBookmark"} =>
       LET all == SortedActive(Pre)
           n == Len(all)
       IN \A i \in 1..n :
            OnBookmark(all, i, last.at) =>
              cursor = IF last.op = "nextBookmark"
                       THEN PositionOf(all[IF i = n THEN 1 ELSE i + 1])
                       ELSE PositionOf(all[IF i = 1 THEN n ELSE i - 1])

\* C13 (navigation from a non-bookmarked position): when the cursor matches no
\* bookmark of the active group, next moves to the least active-group bookmark
\* strictly greater than the cursor in (file, line) order, or to the first if
\* none is greater; prev moves to the greatest one strictly less, or to the
\* last if none is less.
C13_NavigateFromElsewhere ==
  last.op \in {"nextBookmark", "prevBookmark"} =>
    LET all == SortedActive(Pre)
        n == Len(all)
        after == {i \in 1..n : Compare(all[i], last.at) > 0}
        before == {i \in 1..n : Compare(all[i], last.at) < 0}
        Least(S) == CHOOSE i \in S : \A j \in S : i <= j
        Greatest(S) == CHOOSE i \in S : \A j \in S : i >= j
    IN (n > 0 /\ \A i \in 1..n : ~OnBookmark(all, i, last.at)) =>
         cursor = IF last.op = "nextBookmark"
                  THEN PositionOf(all[IF after = {} THEN 1 ELSE Least(after)])
                  ELSE PositionOf(all[IF before = {} THEN n ELSE Greatest(before)])

\* C14 (navigation with an empty active group): when the active group has no
\* bookmark, next and prev leave the cursor, the bookmark list, the group map
\* and the active group unchanged, even when other groups have bookmarks.
C14_EmptyGroupNoOp ==
  (/\ last.op \in {"nextBookmark", "prevBookmark"}
   /\ \A i \in 1..Len(Pre.bookmarks) : Pre.bookmarks[i].group # Pre.activeGroup) =>
    /\ cursor = last.at
    /\ bookmarks = Pre.bookmarks
    /\ bookmarkGroups = Pre.groups
    /\ activeGroup = Pre.activeGroup
    /\ activeBookmarkGroup = Pre.stored

C14_Witness ==
  /\ last.op \in {"nextBookmark", "prevBookmark"}
  /\ last.res = "NoBookmarks"
  /\ Len(bookmarks) > 0
  /\ \A i \in 1..Len(bookmarks) : bookmarks[i].group # activeGroup

\* C17 (rename onto an existing name): renameGroup(old,new) where new is
\* already a group name fails with the "Exists" warning and leaves the group
\* map, every bookmark and the active group unchanged (new = old is the
\* prompt's unchanged default and returns before the command proper).
Unchanged ==
  /\ bookmarks = Pre.bookmarks
  /\ bookmarkGroups = Pre.groups
  /\ activeGroup = Pre.activeGroup
  /\ activeBookmarkGroup = Pre.stored

C17_RenameAlreadyExists ==
  (last.op = "renameGroup" /\ Arg.target \in KeySet(Pre.groups)) =>
    /\ Unchanged
    /\ Arg.target # Arg.name => last.res = "Exists"

C17_Witness ==
  /\ Did("renameGroup", "Exists")
  /\ Arg.name \in KeySet(bookmarkGroups)
  /\ Arg.target \in KeySet(bookmarkGroups)
  /\ \E i, j \in 1..Len(bookmarks) :
       bookmarks[i].group = Arg.name /\ bookmarks[j].group = Arg.target

\* C18 (rename of an unknown group): renameGroup(old,new) where old is not a
\* key of the group map leaves the group map, every bookmark and the active
\* group unchanged; no entry new is created.
C18_RenameNotFound ==
  (last.op = "renameGroup" /\ Arg.name \notin KeySet(Pre.groups)) =>
    /\ Unchanged
    /\ Arg.target \notin KeySet(Pre.groups) => Arg.target \notin KeySet(bookmarkGroups)

\* C19 (set-active of an unknown group): setActiveGroup(name) where name is not
\* a key of the group map leaves the active group, in memory and persisted,
\* unchanged, for the command and for a group item dropped on the bookmarks
\* view.
C19_SetActiveNotFound ==
  (/\ last.op \in {"setActiveGroup", "BookmarksProvider.handleDrop"}
   /\ Arg.name \notin KeySet(Pre.groups)) =>
    /\ activeGroup = Pre.activeGroup
    /\ activeBookmarkGroup = Pre.stored

\* C20 (create group): createGroup(name) with name already a key fails with
\* "Exists" and leaves the group map, the active group and the bookmarks
\* unchanged; otherwise exactly one entry name is added with a colour, every
\* existing group keeps its colour and every bookmark is unchanged.
C20_CreateGroup ==
  (last.op = "createGroup" /\ Truthy(Arg.name)) =>
    IF Arg.name \in KeySet(Pre.groups)
    THEN last.res = "Exists" /\ Unchanged
    ELSE /\ last.res = "Created"
         /\ KeySet(bookmarkGroups) = KeySet(Pre.groups) \cup {Arg.name}
         /\ Len(bookmarkGroups) = Len(Pre.groups) + 1
         /\ Lookup(bookmarkGroups, Arg.name) \in RandomColors
         /\ \A n \in KeySet(Pre.groups) :
              Lookup(bookmarkGroups, n) = Lookup(Pre.groups, n)
         /\ bookmarks = Pre.bookmarks

C20_Witness ==
  /\ Did("createGroup", "Exists")
  /\ Len(bookmarkGroups) >= 2
  /\ \E i \in 1..Len(bookmarks) : bookmarks[i].group = Arg.name

\* C15 (interleaved toggles): two toggles at the same file and line whose
\* handlers interleave at their awaits leave the stores as the two toggles run
\* one after the other would; the list holds no duplicate record for that key
\* and neither toggle's update is lost.
TwoToggles ==
  /\ Len(begun.ops) = 2
  /\ begun.ops[1].op = "toggleBookmark"
  /\ begun.ops[1] = begun.ops[2]
  /\ pending = <<>>

C15_InterleavedToggles ==
  TwoToggles =>
    LET t == begun.ops[1]
        one == ToggleBookmark(begun.base, config, t.uri, t.line, t.content).st
        two == ToggleBookmark(one, config, t.uri, t.line, t.content).st
    IN /\ Current = two
       /\ Cardinality(Matches(bookmarks, t.uri, t.line, activeGroup))
            = Cardinality(Matches(begun.base.bookmarks, t.uri, t.line, activeGroup))

\* The second toggle started while the first was suspended, and the pair
\* added and removed a record on a list that holds others.
C15_Witness ==
  /\ TwoToggles
  /\ begun.overlap
  /\ activeGroup # begun.base.activeGroup
  /\ Len(bookmarks) > 0

\* C16 (cascade atomicity): renameGroup and deleteGroup apply their map
\* update, bookmark cascade and active-pointer update as one step: no state in
\* which another handler can run has the old/deleted name gone from the map
\* while a bookmark or the active pointer still names it.
C16_CascadeAtomic ==
  \A k \in 1..Len(pending) :
    (/\ pending[k].op \in {"renameGroup", "deleteGroup"}
     /\ pending[k].pc \in {"saveGroups", "saveBookmarks"}
     /\ pending[k].name \notin KeySet(bookmarkGroups)) =>
      /\ \A i \in 1..Len(bookmarks) : bookmarks[i].group # pending[k].name
      /\ activeGroup # pending[k].name

\* ------------------------------------------------------------------- C21
\* A move of the bookmark (f, l, from) to the group to was requested: by the
\* command with a picked target, or by a drop on another group.
MoveRequested ==
  \/ last.op = "moveBookmarkToGroup" /\ Truthy(Arg.target)
  \/ last.op = "GroupsProvider.handleDrop" /\ Arg.group # Arg.target

\* C21: moveToGroup for (f, l, from) and target to: when a record with that
\* key exists, one such record has its group set to to, in place (position,
\* file, line and content kept) and every other record is unchanged; when no
\* record has that key the bookmark list is unchanged.
C21_MoveToGroup ==
  MoveRequested =>
    LET m == Matches(Pre.bookmarks, Arg.uri, Arg.line, Arg.group)
    IN IF m # {}
       THEN \E i \in m :
              bookmarks = [Pre.bookmarks EXCEPT ![i].group = Arg.target]
       ELSE bookmarks = Pre.bookmarks

\* The command moved a record that is not the last of several.
C21_Witness ==
  /\ Did("moveBookmarkToGroup", "Moved")
  /\ Len(bookmarks) >= 2
  /\ \E i \in 1..(Len(bookmarks) - 1) :
       /\ bookmarks[i] # Pre.bookmarks[i]
       /\ bookmarks[i].group = Arg.target

\* ------------------------------------------------------------------- C22
\* C22: a confirmed clear removes every bookmark of the active group and no
\* bookmark of another group (the others keep their order); the group map
\* and the active group are unchanged.
C22_ClearActiveGroup ==
  (last.op = "clearBookmarks" /\ Arg.answer = "Yes") =>
    /\ bookmarks = SelectSeq(Pre.bookmarks, LAMBDA b : b.group # Pre.activeGroup)
    /\ bookmarkGroups = Pre.groups
    /\ activeGroup = Pre.activeGroup
    /\ activeBookmarkGroup = Pre.stored

\* A clear that removed records and left records of another group.
C22_Witness ==
  /\ Did("clearBookmarks", "Cleared")
  /\ Len(bookmarks) > 0
  /\ Len(bookmarks) < Len(Pre.bookmarks)

\* ------------------------------------------------------------------- C23
\* C23: remove for the key (f, l, g): when a record with that key exists,
\* one record with that key is removed and every other record is unchanged;
\* when none exists the bookmark list is unchanged.
C23_RemoveByKey ==
  last.op = "removeBookmark" =>
    LET m == Matches(Pre.bookmarks, Arg.uri, Arg.line, Arg.group)
    IN IF m # {}
       THEN /\ last.res = "Removed"
            /\ \E i \in m : bookmarks = Without(Pre.bookmarks, i)
       ELSE /\ last.res = "NotFound"
            /\ bookmarks = Pre.bookmarks

\* A record was removed while another record of the same group has the same
\* line in another file.
C23_Witness ==
  /\ Did("removeBookmark", "Removed")
  /\ \E i \in 1..Len(bookmarks) :
       /\ bookmarks[i].line = Arg.line
       /\ bookmarks[i].group = Arg.group
       /\ bookmarks[i].uri # Arg.uri

\* ------------------------------------------------------------------- C24
\* C24: after initialization every name of the configured colour overrides
\* is a group with its override colour, a persisted group without an
\* override keeps its colour, and there are no other groups; when there is
\* neither a persisted group nor an override the map is exactly
\* {Default: first configured default colour}.  The active group (in memory
\* and persisted) is the persisted active name when that is a key of the
\* resulting map, and the first key of the map otherwise.
C24_InitializationPostcondition ==
  last.op = "activate" =>
    LET overrides == config.groupColors
        merged == KeySet(Pre.groups) \cup KeySet(overrides)
    IN /\ IF merged = {}
          THEN bookmarkGroups =
                 <<[name |-> "Default", color |-> config.defaultColors[1]]>>
          ELSE /\ KeySet(bookmarkGroups) = merged
               /\ \A n \in KeySet(overrides) :
                    Lookup(bookmarkGroups, n) = Lookup(overrides, n)
               /\ \A n \in KeySet(Pre.groups) \ KeySet(overrides) :
                    Lookup(bookmarkGroups, n) = Lookup(Pre.groups, n)
       /\ activeGroup = IF Pre.stored \in KeySet(bookmarkGroups)
                        THEN Pre.stored
                        ELSE bookmarkGroups[1].name
       /\ activeBookmarkGroup = activeGroup
       /\ bookmarks = Pre.bookmarks

\* Initialization found a persisted group whose colour differs from its
\* configured override, and a persisted active name that is a group.
C24_Witness ==
  /\ last.op = "activate"
  /\ \E n \in KeySet(Pre.groups) \cap KeySet(config.groupColors) :
       Lookup(Pre.groups, n) # Lookup(config.groupColors, n)
  /\ Pre.stored \in KeySet(bookmarkGroups)

\* ------------------------------------------------------------------- C25
\* C25: a document-change event in which every change has line-count delta
\* 0 leaves every bookmark line unchanged and issues no persistence write of
\* the bookmark list.
C25_ZeroDeltaNoWrite ==
  (/\ last.op = "onDidChangeTextDocument"
   /\ \A i \in 1..Len(Arg.changes) : Delta(Arg.changes[i]) = 0) =>
    /\ LinesOf(bookmarks) = LinesOf(Pre.bookmarks)
    /\ ~SavesBookmarks(Arg.changes)

\* ------------------------------------------------------------------- C26
\* C26: a bookmark item dropped on a different group when no stored record
\* matches the item's (uri, line, group) ends as NotFound: the handler does
\* not throw, and the bookmark list, the group map and the active group are
\* unchanged.
C26_DropNotFound ==
  (/\ last.op = "GroupsProvider.handleDrop"
   /\ Arg.group # Arg.target
   /\ Matches(Pre.bookmarks, Arg.uri, Arg.line, Arg.group) = {}) =>
    /\ last.res = "NotFound"
    /\ Unchanged

\* ------------------------------------------------------------------- C27
\* C27: when the confirmation prompt of clearBookmarks or of deleteGroup is
\* answered with anything other than Yes (dismissal included), the bookmark
\* list, the group map and the active group are unchanged.
C27_DeclinedPrompt ==
  (/\ last.op \in {"clearBookmarks", "deleteGroup"}
   /\ Arg.answer # "Yes") =>
    Unchanged

\* The prompt of a clear that had bookmarks to remove was dismissed.
C27_Witness ==
  /\ Did("clearBookmarks", "Cancelled")
  /\ Arg.answer # "Yes"
  /\ \E i \in 1..Len(bookmarks) : bookmarks[i].group = activeGroup

\* ------------------------------------------------------------------- C28
\* C28: after a configuration-change event has been processed, every group
\* that exists in the group map and is named in the configured per-group
\* colour overrides has exactly its override colour; this includes a group
\* named Default.
C28_OverridesApplied ==
  last.op = "onDidChangeConfiguration" =>
    \A n \in KeySet(bookmarkGroups) \cap KeySet(config.groupColors) :
      Lookup(bookmarkGroups, n) = Lookup(config.groupColors, n)

\* ------------------------------------------------------------------- C29
\* The stores left by a set-active command naming TODO followed by a
\* confirmed delete of Default, in a fresh workspace: no group, and an active
\* name that is no group.
EmptyMapStore ==
  DeleteGroup(SetActiveGroup(InitializeGroupsAndColors(FreshWorkspace, SettingsDefault),
                             "TODO").st,
              SettingsDefault, "Default", "Yes").st

\* What a toggle at (uri, line) has to leave behind when it started in pre
\* with an active name that is no key of the group map.
ToggleRepaired(pre, cfg, uri, line, content, post, res) ==
  LET first == IF pre.groups = <<>> THEN "Default" ELSE pre.groups[1].name
  IN /\ post.groups = IF pre.groups = <<>>
                      THEN <<[name |-> "Default", color |-> cfg.defaultColors[1]]>>
                      ELSE pre.groups
     /\ post.activeGroup = first
     /\ post.stored = first
     /\ first \in KeySet(post.groups)
     /\ res \in {"Added", "Removed"}
     /\ res = "Added" =>
          post.bookmarks = Append(pre.bookmarks, Bookmark(uri, line, content, first))
     /\ res = "Removed" =>
          \E i \in Matches(pre.bookmarks, uri, line, first) :
            post.bookmarks = Without(pre.bookmarks, i)

\* C29: toggle invoked while the active group name is not a key of the group
\* map: with an empty map a group Default with the first configured default
\* colour is created and becomes active, otherwise the first key of the map
\* becomes active; the bookmark is then added to or removed from that group,
\* so the toggled record's group is a key of the group map.  Checked on every
\* toggle of a behaviour, and on the toggle applied to the empty map under
\* each configuration.
C29_ToggleInvalidActive ==
  /\ (last.op = "toggleBookmark" /\ Pre.activeGroup \notin KeySet(Pre.groups)) =>
       ToggleRepaired(Pre, config, Arg.uri, Arg.line, Arg.content, Current, last.res)
  /\ \A cfg \in Configs, content \in Contents :
       LET out == ToggleBookmark(EmptyMapStore, cfg, cursor.uri, cursor.line, content)
       IN /\ EmptyMapStore.groups = <<>>
          /\ ToggleRepaired(EmptyMapStore, cfg, cursor.uri, cursor.line, content,
                            out.st, out.res)

\* A toggle that started with an active name that is no group removed a
\* record of the first group of the map.
C29_Witness ==
  /\ Did("toggleBookmark", "Removed")
  /\ Pre.activeGroup \notin KeySet(Pre.groups)
  /\ Pre.groups # <<>>
  /\ activeGroup = Pre.groups[1].name

\* ------------------------------------------------------------------- C30
\* The edit-delta rule for one change: a record of file F on a line after
\* start moves by delta, not below line 0.
EditDeltaRule(bms, F, start, delta) ==
  [i \in 1..Len(bms) |->
     IF bms[i].uri = F /\ bms[i].line > start
     THEN [bms[i] EXCEPT !.line = Max(0, bms[i].line + delta)]
     ELSE bms[i]]

RECURSIVE FoldRule(_, _, _)
FoldRule(bms, F, changes) ==
  IF changes = <<>> THEN bms
  ELSE LET c == Head(changes)
       IN FoldRule(EditDeltaRule(bms, F, c.start,
                                 (c.newlines + 1) - (c.end - c.start + 1)),
                   F, Tail(changes))

\* C30: for a document-change event on file F with changes c1..cn in
\* reported order, the resulting bookmark lines are those obtained by
\* applying the edit-delta rule for c1, then for c2 on that result, and so
\* on, each with start line ci.range.start.line and delta = (number of
\* newline-separated segments of ci.text) - (ci.range.end.line -
\* ci.range.start.line + 1).
C30_SyncIsFold ==
  last.op = "onDidChangeTextDocument" =>
    bookmarks = FoldRule(Pre.bookmarks, Arg.uri, Arg.changes)

\* An event of two changes whose result differs from the one the changes
\* would give in the other order.
C30_Witness ==
  /\ Did("onDidChangeTextDocument", "Synced")
  /\ Len(Arg.changes) = 2
  /\ LinesOf(bookmarks) #
       LinesOf(FoldRule(Pre.bookmarks, Arg.uri, <<Arg.changes[2], Arg.changes[1]>>))

\* ------------------------------------------------------------------- C31
\* C31: when the cursor position matches no bookmark of the active group,
\* next moves to the first bookmark of the sorted order and prev moves to
\* the last bookmark of the sorted order.
C31_FallbackNavigation ==
  last.op \in {"nextBookmark", "prevBookmark"} =>
    LET all == SortedActive(Pre)
        n == Len(all)
    IN (n > 0 /\ \A i \in 1..n : ~OnBookmark(all, i, last.at)) =>
         cursor = IF last.op = "nextBookmark"
                  THEN PositionOf(all[1])
                  ELSE PositionOf(all[n])

\* ------------------------------------------------------------------- C32
RECURSIVE IsSubsequence(_, _)
IsSubsequence(a, b) ==
  IF a = <<>> THEN TRUE
  ELSE IF b = <<>> THEN FALSE
  ELSE IF Head(a) = Head(b) THEN IsSubsequence(Tail(a), Tail(b))
  ELSE IsSubsequence(a, Tail(b))

\* The record b is the record a after the handler op: same file and content;
\* the line may differ after a document edit, the group after a move or a
\* rename.
SameRecord(a, b, op) ==
  /\ a.uri = b.uri
  /\ a.content = b.content
  /\ op # "onDidChangeTextDocument" => a.line = b.line
  /\ op \notin {"moveBookmarkToGroup", "GroupsProvider.handleDrop", "renameGroup"} =>
       a.group = b.group

\* C32: the stored list keeps insertion order: no operation (toggle, remove,
\* move, clear, rename, delete, document edit, next, prev, tree rendering)
\* changes the relative order of two records that both survive it, and a
\* newly added record is placed after all existing ones.  A handler leaves
\* the list with every record in its place, or with records taken out and the
\* others in their order, or with one record appended.
C32_InsertionOrder ==
  LET pre == Pre.bookmarks
  IN \/ last.op = "activate" /\ bookmarks = pre
     \/ /\ Len(bookmarks) = Len(pre)
        /\ \A i \in 1..Len(pre) : SameRecord(pre[i], bookmarks[i], last.op)
     \/ /\ Len(bookmarks) < Len(pre)
        /\ IsSubsequence(bookmarks, pre)
     \/ /\ Len(bookmarks) = Len(pre) + 1
        /\ SubSeq(bookmarks, 1, Len(pre)) = pre

\* next revealed a bookmark while the stored list was not in sorted order.
C32_Witness ==
  /\ Did("nextBookmark", "Revealed")
  /\ Sort(Pre.bookmarks) # Pre.bookmarks
  /\ Len(bookmarks) >= 2

\* ------------------------------------------------------------------- C33
\* The handlers that take records out of the list, and those that add one.
Removers == {"toggleBookmark", "removeBookmark", "clearBookmarks", "deleteGroup"}

\* C33: once created, a record's file and snapshot content never change;
\* only its line (by a document edit) and its group (by a move or a rename)
\* change, and records disappear only by toggle-remove, explicit remove,
\* clear or group deletion.
C33_FieldImmutability ==
  LET pre == Pre.bookmarks
  IN /\ Len(bookmarks) < Len(pre) =>
          /\ last.op \in Removers
          /\ IsSubsequence(bookmarks, pre)
     /\ Len(bookmarks) > Len(pre) =>
          /\ last.op = "toggleBookmark"
          /\ SubSeq(bookmarks, 1, Len(pre)) = pre
     /\ Len(bookmarks) = Len(pre) =>
          \A i \in 1..Len(pre) :
            /\ bookmarks[i].uri = pre[i].uri
            /\ bookmarks[i].content = pre[i].content
            /\ bookmarks[i].line # pre[i].line =>
                 last.op = "onDidChangeTextDocument"
            /\ bookmarks[i].group # pre[i].group =>
                 last.op \in {"moveBookmarkToGroup", "GroupsProvider.handleDrop",
                              "renameGroup"}

\* A move changed the group of a record that carries a content snapshot.
C33_Witness ==
  /\ Did("moveBookmarkToGroup", "Moved")
  /\ \E i \in 1..Len(bookmarks) :
       /\ bookmarks[i].group # Pre.bookmarks[i].group
       /\ bookmarks[i].content = Pre.bookmarks[i].content
       /\ bookmarks[i].content # Undefined

\* ------------------------------------------------------------------- C34
\* C34: after a content change with start line s is applied, no bookmark
\* that was on a line strictly greater than s before the change ends on a
\* line strictly less than s.  Stated for the events of one change.
C34_NeverAboveEditPoint ==
  (last.op = "onDidChangeTextDocument" /\ Len(Arg.changes) = 1) =>
    \A i \in 1..Len(Pre.bookmarks) :
      (Pre.bookmarks[i].uri = Arg.uri /\ Pre.bookmarks[i].line > Arg.changes[1].start) =>
        bookmarks[i].line >= Arg.changes[1].start

\* ------------------------------------------------------------------- C35
\* The positions the cursor is put on by k consecutive next commands that
\* start from cur, the stores staying as they are in st.
RECURSIVE Visited(_, _, _)
Visited(st, cur, k) ==
  IF k = 0 THEN {}
  ELSE LET pos == NextBookmark(st, cur).cursor
       IN {pos} \cup Visited(st, pos, k - 1)

\* C35: in every reachable state of the stores and from any cursor
\* position, k consecutive next commands, k being the number of bookmark
\* records of the active group, place the cursor on the location of every
\* record of the active group at least once.
C35_NavigationCoversGroup ==
  LET all == SortedActive(Current)
  IN \A cur \in Positions :
       {PositionOf(all[i]) : i \in 1..Len(all)} \subseteq Visited(Current, cur, Len(all))

\* ------------------------------------------------------------------- C36
\* C36: after createGroup(name) succeeds, name is the active group, in the
\* in-memory active-group variable and in the persisted active-group slot.
C36_CreatedGroupIsActive ==
  Did("createGroup", "Created") =>
    /\ activeGroup = Arg.name
    /\ activeBookmarkGroup = Arg.name
    /\ Arg.name \in KeySet(bookmarkGroups)

\* A group was created while another group was the active one.
C36_Witness ==
  /\ Did("createGroup", "Created")
  /\ Pre.activeGroup # Arg.name
  /\ Pre.stored # Arg.name

ClearConfirmed(k) ==
  /\ pending[k].op = "clearBookmarks"
  /\ pending' = SubSeq(pending, 1, k - 1) \o SubSeq(pending, k + 1, Len(pending))
  /\ last'.op = "clearBookmarks"
  /\ last'.arg.answer = "Yes"
  /\ last'.arg.name = pending[k].name
  /\ last'.pre = Current

\* C38: clearBookmarks removes the bookmarks of exactly the group that its
\* confirmation prompt named, even when other events are processed while
\* the prompt is open: the step that follows the answer Yes takes the records
\* of the named group, and no others, out of the list.
C38_ClearsPromptedGroup ==
  [][\A k \in 1..Len(pending) :
       ClearConfirmed(k) =>
         bookmarks' = SelectSeq(bookmarks, LAMBDA b : b.group # pending[k].name)]_vars

\* ------------------------------------------------------------------- C39
\* The group map a rename has saved itself (line 561) before it calls
\* ensureDecorationForGroup for the new name.
RenameSaved ==
  Serialize(Assign(DeleteKey(Pre.groups, Arg.name), Arg.target,
                   Lookup(Pre.groups, Arg.name)))

\* C39: decoration refresh is read-only with respect to the stores:
\* updateDecorations and ensureDecorationForGroup never add an entry to, or
\* otherwise change, the persisted group map, so the set of group names
\* changes only through initialization, createGroup, renameGroup,
\* deleteGroup and toggle's Default synthesis.
C39_DecorationRefreshReadOnly ==
  /\ last.op \notin {"activate", "createGroup", "renameGroup", "deleteGroup",
                     "toggleBookmark"} =>
       KeySet(bookmarkGroups) = KeySet(Pre.groups)
  /\ Did("renameGroup", "Renamed") => bookmarkGroups = RenameSaved

====
